---- MODULE Spec2Model ----
(***************************************************************************)
(* The prediction client of HPP/client/app.js: the status probe made on    *)
(* page load, the submit handler of predictionForm with its two suspension *)
(* points (await fetch, await response.json()), and the DOM elements and   *)
(* timers the handlers write.                                              *)
(***************************************************************************)
EXTENDS Integers, Sequences, FiniteSets, TLC

VARIABLES
    predictBtn,   \* [disabled]                      element #predictBtn
    btnText,      \* [opacity]                       element #btnText
    loading,      \* [display]                       element #loading
    resultEl,     \* [className, innerHTML, display, by]  element #result
    apiStatus,    \* [className, textContent, display]    element #apiStatus
    statusPc,     \* position of checkApiStatus: "fetch" or "done"
    probe,        \* how the fetch of checkApiStatus settled ("pending" before)
    statusTimer,  \* TRUE while the 3000 ms hide timer of apiStatus is pending
    timers,       \* pending 10000 ms hide timers of #result, oldest first
    inflight,     \* the submit handlers suspended at an await
    nextId,       \* number of the next submit event
    last          \* the submit handler that completed most recently

vars == <<predictBtn, btnText, loading, resultEl, apiStatus, statusPc,
          probe, statusTimer, timers, inflight, nextId, last>>

\* ------------------------------------------------------------------ bounds
MaxSubmits == 2
MaxInFlight == 2

\* -------------------------------------------------------------- JS values
Undefined == [t |-> "undefined"]
Null == [t |-> "null"]
NaN == [t |-> "NaN"]
Num(n) == [t |-> "number", n |-> n]
Str(s) == [t |-> "string", s |-> s]
\* a string kept as its sequence of characters (form field values)
Text(cs) == [t |-> "text", cs |-> cs]
Obj(price, error) == [t |-> "object", estimated_price |-> price, error |-> error]

\* ToBoolean, as used by && and ||
Truthy(v) ==
    CASE v.t = "undefined" -> FALSE
      [] v.t = "null" -> FALSE
      [] v.t = "NaN" -> FALSE
      [] v.t = "number" -> v.n # 0
      [] v.t = "string" -> v.s # ""
      [] v.t = "text" -> v.cs # <<>>
      [] OTHER -> TRUE

\* a || b
JsOr(a, b) == IF Truthy(a) THEN a ELSE b

\* ------------------------------------------------------------- parseInt
DigitChars == <<"0", "1", "2", "3", "4", "5", "6", "7", "8", "9">>
HexChars == DigitChars \o <<"a", "b", "c", "d", "e", "f">>
WhiteSpace == {" "}

CharVal(c, table) == (CHOOSE i \in 1..Len(table) : table[i] = c) - 1
IsIn(c, table) == \E i \in 1..Len(table) : table[i] = c

RECURSIVE StripLeft(_)
StripLeft(cs) ==
    IF cs # <<>> /\ Head(cs) \in WhiteSpace THEN StripLeft(Tail(cs)) ELSE cs

\* the longest prefix of cs made of digits of the table
RECURSIVE DigitPrefix(_, _)
DigitPrefix(cs, table) ==
    IF cs # <<>> /\ IsIn(Head(cs), table)
    THEN <<Head(cs)>> \o DigitPrefix(Tail(cs), table)
    ELSE <<>>

RECURSIVE DigitsValue(_, _, _)
DigitsValue(ds, table, acc) ==
    IF ds = <<>> THEN acc
    ELSE DigitsValue(Tail(ds), table, acc * Len(table) + CharVal(Head(ds), table))

\* parseInt(string) with no radix argument
parseInt(v) ==
    IF v.t # "text" THEN NaN
    ELSE
    LET s == StripLeft(v.cs)
        neg == s # <<>> /\ Head(s) = "-"
        signed == s # <<>> /\ Head(s) \in {"-", "+"}
        u == IF signed THEN Tail(s) ELSE s
        hex == Len(u) >= 2 /\ u[1] = "0" /\ u[2] \in {"x", "X"}
        table == IF hex THEN HexChars ELSE DigitChars
        ds == DigitPrefix(IF hex THEN Tail(Tail(u)) ELSE u, table)
    IN  IF ds = <<>> THEN NaN
        ELSE Num((IF neg THEN -1 ELSE 1) * DigitsValue(ds, table, 0))

\* ------------------------------------------------------------- the form
IntFields == {"area", "bedrooms", "bathrooms", "stories", "parking"}
FlagFields == {"mainroad", "guestroom", "basement", "hotwaterheating",
               "airconditioning", "prefarea"}
FieldNames == IntFields \cup FlagFields \cup {"furnishingstatus"}

Yes == <<"y", "e", "s">>
No == <<"n", "o">>
Furnished == <<"f", "u", "r", "n", "i", "s", "h", "e", "d">>
SemiFurnished == <<"s", "e", "m", "i", "-">> \o Furnished
Unfurnished == <<"u", "n">> \o Furnished

\* the sample values the DOMContentLoaded handler writes into the fields
SampleForm ==
    [f \in FieldNames |->
        CASE f = "area" -> <<"7", "4", "2", "0">>
          [] f = "bedrooms" -> <<"4">>
          [] f = "bathrooms" -> <<"2">>
          [] f = "stories" -> <<"3">>
          [] f = "mainroad" -> Yes
          [] f = "guestroom" -> No
          [] f = "basement" -> No
          [] f = "hotwaterheating" -> No
          [] f = "airconditioning" -> Yes
          [] f = "parking" -> <<"2">>
          [] f = "prefarea" -> Yes
          [] f = "furnishingstatus" -> Furnished]

\* FormData.get(name)
FormDataGet(fd, name) == IF name \in DOMAIN fd THEN Text(fd[name]) ELSE Null

\* variant: parking and prefarea in each other's place
InputFeatures_Swapped(fd) ==
    << parseInt(FormDataGet(fd, "area")),
       parseInt(FormDataGet(fd, "bedrooms")),
       parseInt(FormDataGet(fd, "bathrooms")),
       parseInt(FormDataGet(fd, "stories")),
       FormDataGet(fd, "mainroad"),
       FormDataGet(fd, "guestroom"),
       FormDataGet(fd, "basement"),
       FormDataGet(fd, "hotwaterheating"),
       FormDataGet(fd, "airconditioning"),
       FormDataGet(fd, "prefarea"),
       parseInt(FormDataGet(fd, "parking")),
       FormDataGet(fd, "furnishingstatus") >>

\* variant: `parseInt(...) || 0` at the integer positions
InputFeatures_DefaultZero(fd) ==
    << JsOr(parseInt(FormDataGet(fd, "area")), Num(0)),
       JsOr(parseInt(FormDataGet(fd, "bedrooms")), Num(0)),
       JsOr(parseInt(FormDataGet(fd, "bathrooms")), Num(0)),
       JsOr(parseInt(FormDataGet(fd, "stories")), Num(0)),
       FormDataGet(fd, "mainroad"),
       FormDataGet(fd, "guestroom"),
       FormDataGet(fd, "basement"),
       FormDataGet(fd, "hotwaterheating"),
       FormDataGet(fd, "airconditioning"),
       JsOr(parseInt(FormDataGet(fd, "parking")), Num(0)),
       FormDataGet(fd, "prefarea"),
       FormDataGet(fd, "furnishingstatus") >>

\* the array literal of the submit handler
InputFeatures(fd) ==
    << parseInt(FormDataGet(fd, "area")),
       parseInt(FormDataGet(fd, "bedrooms")),
       parseInt(FormDataGet(fd, "bathrooms")),
       parseInt(FormDataGet(fd, "stories")),
       FormDataGet(fd, "mainroad"),
       FormDataGet(fd, "guestroom"),
       FormDataGet(fd, "basement"),
       FormDataGet(fd, "hotwaterheating"),
       FormDataGet(fd, "airconditioning"),
       parseInt(FormDataGet(fd, "parking")),
       FormDataGet(fd, "prefarea"),
       FormDataGet(fd, "furnishingstatus") >>

\* JSON.stringify of one array element: NaN and null both serialize as null
JsonElement(v) ==
    CASE v.t = "number" -> [j |-> "number", n |-> v.n]
      [] v.t = "text" -> [j |-> "string", cs |-> v.cs]
      [] OTHER -> [j |-> "null"]

\* JSON.stringify({input: inputFeatures})
JsonBody(input) == [input |-> [i \in 1..Len(input) |-> JsonElement(input[i])]]


\* ------------------------------------------------------------ rendering
RECURSIVE Groups(_)
\* the groups of three digits of n >= 0, most significant first
Groups(n) == IF n < 1000 THEN <<n>> ELSE Groups(n \div 1000) \o <<n % 1000>>

\* Intl.NumberFormat('en-US', currency USD, no fraction digits).format(price)
formatPrice(price) ==
    IF price.t = "number"
    THEN [nan |-> FALSE, neg |-> price.n < 0, currency |-> "$",
          groups |-> Groups(IF price.n < 0 THEN -price.n ELSE price.n)]
    ELSE [nan |-> TRUE, neg |-> FALSE, currency |-> "$", groups |-> <<>>]

\* the conversion a template literal applies to ${message}
TemplateString(v) ==
    CASE v.t = "string" -> v.s
      [] v.t = "undefined" -> "undefined"
      [] v.t = "null" -> "null"
      [] v.t = "NaN" -> "NaN"
      [] OTHER -> "[object Object]"

NetworkErrorMessage == Str("Network error - please check if the API server is running")
PredictionFailed == Str("Prediction failed")

\* the elements and timers the prediction flow writes, as one record
Ui == [predictBtn |-> predictBtn, btnText |-> btnText, loading |-> loading,
       resultEl |-> resultEl, timers |-> timers]

\* variant: the button is left as it is
setLoading_NoDisable(ui, isLoading) ==
    IF isLoading
    THEN [ui EXCEPT !.btnText = [opacity |-> "0"],
                    !.loading = [display |-> "block"]]
    ELSE [ui EXCEPT !.btnText = [opacity |-> "1"],
                    !.loading = [display |-> "none"]]

setLoading(ui, isLoading) ==
    IF isLoading
    THEN [ui EXCEPT !.predictBtn = [disabled |-> TRUE],
                    !.btnText = [opacity |-> "0"],
                    !.loading = [display |-> "block"]]
    ELSE [ui EXCEPT !.predictBtn = [disabled |-> FALSE],
                    !.btnText = [opacity |-> "1"],
                    !.loading = [display |-> "none"]]

\* showResult(message, isError = false, price = null), called by handler id
showResult(ui, id, message, isError, price) ==
    LET html == IF Truthy(price) /\ ~isError
                THEN [kind |-> "price", icon |-> "party", text |-> "",
                      price |-> formatPrice(price)]
                ELSE [kind |-> "message",
                      icon |-> IF isError THEN "cross" ELSE "check",
                      text |-> TemplateString(message),
                      price |-> formatPrice(Null)]
    IN  [ui EXCEPT !.resultEl = [className |-> IF isError THEN "result error"
                                               ELSE "result success",
                                 innerHTML |-> html,
                                 display |-> "block",
                                 by |-> id],
                   !.timers = IF ~isError THEN Append(@, id) ELSE @]

\* the calls a handler makes, as data
CallSetLoading(b) ==
    [fn |-> "setLoading", isLoading |-> b, message |-> Undefined,
     isError |-> FALSE, price |-> Null]
CallShowResult(message, isError, price) ==
    [fn |-> "showResult", isLoading |-> FALSE, message |-> message,
     isError |-> isError, price |-> price]
CallOther(name) ==
    [fn |-> name, isLoading |-> FALSE, message |-> Undefined,
     isError |-> FALSE, price |-> Null]

ApplyCall(ui, id, c) ==
    CASE c.fn = "setLoading" -> setLoading(ui, c.isLoading)
      [] c.fn = "showResult" -> showResult(ui, id, c.message, c.isError, c.price)
      [] OTHER -> ui

RECURSIVE Run(_, _, _)
\* the calls of cs made in order on ui
Run(ui, id, cs) ==
    IF cs = <<>> THEN ui ELSE Run(ApplyCall(ui, id, Head(cs)), id, Tail(cs))

\* ------------------------------------------------ the submit handler
Ok(status) == status \in 200..299

\* variant: `data.estimated_price !== undefined` in place of the truthiness test
TryAfterJson_PresentPrice(status, data) ==
    IF data.t \in {"null", "undefined"}
    THEN [threw |-> TRUE, calls |-> <<>>]
    ELSE IF Ok(status) /\ data.estimated_price # Undefined
    THEN [threw |-> FALSE,
          calls |-> <<CallShowResult(Str(""), FALSE, data.estimated_price)>>]
    ELSE [threw |-> FALSE,
          calls |-> <<CallShowResult(JsOr(data.error, PredictionFailed), TRUE, Null)>>]

\* variant: the error branch always shows the generic message
TryAfterJson_GenericOnly(status, data) ==
    IF data.t \in {"null", "undefined"}
    THEN [threw |-> TRUE, calls |-> <<>>]
    ELSE IF Ok(status) /\ Truthy(data.estimated_price)
    THEN [threw |-> FALSE,
          calls |-> <<CallShowResult(Str(""), FALSE, data.estimated_price)>>]
    ELSE [threw |-> FALSE,
          calls |-> <<CallShowResult(PredictionFailed, TRUE, Null)>>]

\* the statements of the try block that follow `await response.json()`
TryAfterJson(status, data) ==
    IF data.t \in {"null", "undefined"}
    THEN [threw |-> TRUE, calls |-> <<>>]
    ELSE IF Ok(status) /\ Truthy(data.estimated_price)
    THEN [threw |-> FALSE,
          calls |-> <<CallShowResult(Str(""), FALSE, data.estimated_price)>>]
    ELSE [threw |-> FALSE,
          calls |-> <<CallShowResult(JsOr(data.error, PredictionFailed), TRUE, Null)>>]

\* what the try block does once the awaited promise settles
TryBlock(r, settle, data) ==
    CASE settle = "fetch-rejected" -> [threw |-> TRUE, calls |-> <<>>]
      [] settle = "json-rejected" -> [threw |-> TRUE, calls |-> <<>>]
      [] OTHER -> TryAfterJson(r.status, data)

\* variant: the catch clause sends the request once more before giving up
CatchBlock_Retry ==
    <<CallOther("console.error"), CallOther("fetch"),
      CallShowResult(NetworkErrorMessage, TRUE, Null)>>

\* variant: the catch clause shows the generic prediction message
CatchBlock_Generic ==
    <<CallOther("console.error"),
      CallShowResult(PredictionFailed, TRUE, Null)>>

CatchBlock ==
    <<CallOther("console.error"),
      CallShowResult(NetworkErrorMessage, TRUE, Null)>>

FinallyBlock == <<CallSetLoading(FALSE)>>

\* variant: setLoading(false) at the end of the try block, with no finally clause
Completion_NoFinallyOnCatch(r, settle, data) ==
    LET try == TryBlock(r, settle, data)
        caught == try.threw
    IN  [calls |-> try.calls \o (IF caught THEN CatchBlock ELSE FinallyBlock),
         escaped |-> try.threw /\ ~caught]

\* try / catch / finally: the calls made from the settled await to the end
Completion(r, settle, data) ==
    LET try == TryBlock(r, settle, data)
        caught == try.threw
    IN  [calls |-> try.calls \o (IF caught THEN CatchBlock ELSE <<>>)
                   \o FinallyBlock,
         escaped |-> try.threw /\ ~caught]


\* ------------------------------------------------------------ the inputs
\* form snapshots a user submits
WithField(fd, name, cs) == [fd EXCEPT ![name] = cs]

Forms ==
    { SampleForm,
      WithField(SampleForm, "area", <<"a", "b", "c">>) }

IntTexts ==
    { <<>>, <<"7">>, <<"4", "2">>, <<" ", "4", "2">>, <<"-", "7">>, <<"+", "3">>,
      <<"1", "2", "p", "x">>, <<"1", ".", "5">>, <<"a", "b", "c">>, <<"-">>,
      <<"0", "x", "1", "f">>, <<"0", "0", "7">> }

\* the sample form with one field changed, and the forms of Forms
WideForms ==
    Forms
    \cup { WithField(SampleForm, "parking", <<>>) }
    \cup { WithField(SampleForm, f, cs) : f \in IntFields, cs \in IntTexts }
    \cup { WithField(SampleForm, f, cs) : f \in FlagFields, cs \in {Yes, No} }
    \cup { WithField(SampleForm, "furnishingstatus", cs) :
             cs \in {Furnished, SemiFurnished, Unfurnished} }
    \cup { [f \in FieldNames |->
              IF f \in IntFields THEN cs
              ELSE IF f \in FlagFields THEN fl ELSE Unfurnished] :
             cs \in {<<"9">>, <<"x">>}, fl \in {Yes, No} }

\* what the server may answer
Statuses == {200, 400}
Prices == {Undefined, Num(0), Num(650000), Num(-5)}
Errors == {Undefined, Str(""), Str("bad input")}
Datas ==
    {Null}
    \cup {Obj(p, Undefined) : p \in Prices}
    \cup {Obj(Undefined, e) : e \in Errors}
    \cup {Obj(Num(0), Str("bad input")), Obj(Num(650000), Str("bad input"))}

\* ------------------------------------------------------------------ Init
NoLast ==
    [id |-> 0, settle |-> "none", status |-> 0, data |-> Undefined,
     calls |-> <<>>, escaped |-> FALSE]

\* the page once the script has run and DOMContentLoaded has been handled:
\* checkApiStatus is suspended at its fetch, no submit event has occurred;
\* #result and #apiStatus start hidden, the button enabled
Init ==
    /\ predictBtn = [disabled |-> FALSE]
    /\ btnText = [opacity |-> "1"]
    /\ loading = [display |-> "none"]
    /\ resultEl = [className |-> "result",
                   innerHTML |-> [kind |-> "none", icon |-> "", text |-> "",
                                  price |-> formatPrice(Null)],
                   display |-> "none", by |-> 0]
    /\ apiStatus = [className |-> "api-status", textContent |-> "",
                    display |-> "none"]
    /\ statusPc = "fetch"
    /\ probe = "pending"
    /\ statusTimer = FALSE
    /\ timers = <<>>
    /\ inflight = {}
    /\ nextId = 1
    /\ last = NoLast

SetUi(ui) ==
    /\ predictBtn' = ui.predictBtn
    /\ btnText' = ui.btnText
    /\ loading' = ui.loading
    /\ resultEl' = ui.resultEl
    /\ timers' = ui.timers

\* --------------------------------------------------------------- actions
\* the submit listener, from the event to `await fetch(...)`
SubmitHandler(fd) ==
    LET inputFeatures == InputFeatures(fd)
        body == JsonBody(inputFeatures)
        calls == <<CallSetLoading(TRUE), CallOther("fetch")>>
    IN  /\ nextId <= MaxSubmits
        /\ Cardinality(inflight) < MaxInFlight
        /\ SetUi(Run(Ui, nextId, calls))
        /\ inflight' = inflight \cup
              {[id |-> nextId, pc |-> "fetch", status |-> 0, form |-> fd,
                body |-> body, calls |-> calls, overtaken |-> FALSE]}
        /\ nextId' = nextId + 1
        /\ UNCHANGED <<apiStatus, statusPc, probe, statusTimer, last>>

\* a submit event raised through the enabled submit control
ClickPredict ==
    /\ ~predictBtn.disabled
    /\ \E fd \in Forms : SubmitHandler(fd)

\* a submit event raised while the control is disabled (form.requestSubmit(),
\* or implicit submission of a form whose default button is another one)
RequestSubmit ==
    /\ predictBtn.disabled
    /\ \E fd \in Forms : SubmitHandler(fd)

\* variant: the response of a submission that is not the latest one is dropped
Complete_LatestOnly(r, settle, data) ==
    LET c == Completion(r, settle, data)
    IN  /\ SetUi(IF r.id = nextId - 1 THEN Run(Ui, r.id, c.calls) ELSE Ui)
        /\ inflight' = {[q EXCEPT !.overtaken = TRUE] : q \in inflight \ {r}}
        /\ last' = [id |-> r.id, settle |-> settle, status |-> r.status,
                    data |-> data, calls |-> r.calls \o c.calls,
                    escaped |-> c.escaped]
        /\ UNCHANGED <<apiStatus, statusPc, probe, statusTimer, nextId>>

\* the handler of request r runs from its settled await to its end
Complete(r, settle, data) ==
    LET c == Completion(r, settle, data)
    IN  /\ SetUi(Run(Ui, r.id, c.calls))
        /\ inflight' = {[q EXCEPT !.overtaken = TRUE] : q \in inflight \ {r}}
        /\ last' = [id |-> r.id, settle |-> settle, status |-> r.status,
                    data |-> data, calls |-> r.calls \o c.calls,
                    escaped |-> c.escaped]
        /\ UNCHANGED <<apiStatus, statusPc, probe, statusTimer, nextId>>

\* `await fetch(...)` rejects: the connection failed
FetchRejects ==
    \E r \in inflight :
        /\ r.pc = "fetch"
        /\ Complete(r, "fetch-rejected", Undefined)

\* `await fetch(...)` resolves with a response of some status; the handler
\* calls response.json() and is suspended again
FetchResolves ==
    \E r \in inflight, s \in Statuses :
        /\ r.pc = "fetch"
        /\ inflight' = (inflight \ {r}) \cup
              {[r EXCEPT !.pc = "json", !.status = s,
                         !.calls = Append(@, CallOther("response.json"))]}
        /\ UNCHANGED <<predictBtn, btnText, loading, resultEl, apiStatus,
                       statusPc, probe, statusTimer, timers, nextId, last>>

\* `await response.json()` rejects: the body is not JSON
JsonRejects ==
    \E r \in inflight :
        /\ r.pc = "json"
        /\ Complete(r, "json-rejected", Undefined)

\* `await response.json()` resolves with the parsed body
JsonResolves ==
    \E r \in inflight, data \in Datas :
        /\ r.pc = "json"
        /\ Complete(r, "json", data)

\* the oldest 10000 ms timer set by showResult fires
ResultTimerFires ==
    /\ timers # <<>>
    /\ resultEl' = [resultEl EXCEPT !.display = "none"]
    /\ timers' = Tail(timers)
    /\ UNCHANGED <<predictBtn, btnText, loading, apiStatus, statusPc,
                   probe, statusTimer, inflight, nextId, last>>

OnlineStatus ==
    [className |-> "api-status online", textContent |-> "API Connected",
     display |-> "block"]
OfflineStatus ==
    [className |-> "api-status offline",
     textContent |-> "API Offline - Please start the Flask server",
     display |-> "block"]

\* variant: no else branch, a response that is not ok is ignored
checkApiStatus_NoElse(outcome) ==
    LET threw == outcome = "rejected"
    IN  /\ statusPc = "fetch"
        /\ statusPc' = "done"
        /\ probe' = outcome
        /\ apiStatus' = IF threw THEN OfflineStatus
                        ELSE IF outcome = "ok" THEN OnlineStatus ELSE apiStatus
        /\ statusTimer' = (~threw /\ outcome = "ok")
        /\ UNCHANGED <<predictBtn, btnText, loading, resultEl, timers, inflight,
                       nextId, last>>

\* variant: an offline API also disables the submit control
checkApiStatus_DisableOffline(outcome) ==
    LET threw == outcome = "rejected" \/ outcome # "ok"
    IN  /\ statusPc = "fetch"
        /\ statusPc' = "done"
        /\ probe' = outcome
        /\ apiStatus' = IF threw THEN OfflineStatus ELSE OnlineStatus
        /\ statusTimer' = ~threw
        /\ predictBtn' = IF threw THEN [disabled |-> TRUE] ELSE predictBtn
        /\ UNCHANGED <<btnText, loading, resultEl, timers, inflight,
                       nextId, last>>

\* checkApiStatus, from its settled fetch to its end: the try block throws when
\* fetch rejects and when the response is not ok; the catch clause sets offline
checkApiStatus(outcome) ==
    LET threw == outcome = "rejected" \/ outcome # "ok"
    IN  /\ statusPc = "fetch"
        /\ statusPc' = "done"
        /\ probe' = outcome
        /\ apiStatus' = IF threw THEN OfflineStatus ELSE OnlineStatus
        /\ statusTimer' = ~threw
        /\ UNCHANGED <<predictBtn, btnText, loading, resultEl, timers, inflight,
                       nextId, last>>

ProbeSettles == \E outcome \in {"ok", "not-ok", "rejected"} : checkApiStatus(outcome)

\* the 3000 ms timer set by checkApiStatus fires
StatusTimerFires ==
    /\ statusTimer
    /\ statusTimer' = FALSE
    /\ apiStatus' = [apiStatus EXCEPT !.display = "none"]
    /\ UNCHANGED <<predictBtn, btnText, loading, resultEl, statusPc, probe, timers,
                   inflight, nextId, last>>


Next ==
    \/ ClickPredict
    \/ RequestSubmit
    \/ FetchRejects
    \/ FetchResolves
    \/ JsonRejects
    \/ JsonResolves
    \/ ResultTimerFires
    \/ ProbeSettles
    \/ StatusTimerFires

Spec == Init /\ [][Next]_vars


\* submit events come only through the enabled submit control
NextControl ==
    \/ ClickPredict
    \/ FetchRejects
    \/ FetchResolves
    \/ JsonRejects
    \/ JsonResolves
    \/ ResultTimerFires
    \/ ProbeSettles
    \/ StatusTimerFires

SpecControl == Init /\ [][NextControl]_vars

\* one submission, of any form of WideForms
SubmitWide ==
    /\ nextId = 1
    /\ \E fd \in WideForms : SubmitHandler(fd)

NextForm ==
    \/ SubmitWide
    \/ FetchRejects
    \/ FetchResolves
    \/ JsonRejects
    \/ JsonResolves

SpecForm == Init /\ [][NextForm]_vars

\* ---------------------------------------------------------------- claims
IsSuccessRender(el) ==
    el.className = "result success" /\ el.innerHTML.kind = "price"
IsErrorRender(el) ==
    /\ el.className = "result error"
    /\ el.innerHTML.kind = "message"
    /\ el.innerHTML.icon = "cross"
\* the handler l got a response of success status whose body holds a truthy price
OkWithTruthyPrice(l) ==
    /\ l.settle = "json"
    /\ l.data.t = "object"
    /\ Ok(l.status)
    /\ Truthy(l.data.estimated_price)
Finished == last.id # 0

\* C1: what the handler that completed last has rendered is a success (the
\* price) exactly when its response had a success status and a truthy
\* estimated_price, and is an error rendering in every other case.
C1_SuccessIffOkAndTruthyPrice ==
    Finished =>
        /\ resultEl.by = last.id
        /\ IsSuccessRender(resultEl) <=> OkWithTruthyPrice(last)
        /\ ~IsSuccessRender(resultEl) => IsErrorRender(resultEl)

\* HTTP 200 with estimated_price 0 has been rendered as an error
C1_Witness ==
    /\ Finished
    /\ last.settle = "json"
    /\ last.status = 200
    /\ last.data = Obj(Num(0), Undefined)
    /\ IsErrorRender(resultEl)

LoadingShown == predictBtn.disabled /\ loading.display = "block"

\* C2 (as claimed): whenever a request is in flight, predictBtn is disabled and
\* the loading indicator is shown.
C2_DisabledWhileInFlight == inflight # {} => LoadingShown

\* C2 (amended): whenever a request is in flight and no other submission has
\* completed since it was dispatched, predictBtn is disabled and the loading
\* indicator is shown.
C2_DisabledUntilACompletion ==
    \A r \in inflight : ~r.overtaken => LoadingShown

\* two requests in flight, the response of neither handled yet
C2_Witness ==
    /\ Cardinality(inflight) = 2
    /\ \A r \in inflight : ~r.overtaken /\ r.pc = "json"
    /\ LoadingShown

CallsOf(l, fn) == {i \in 1..Len(l.calls) : l.calls[i].fn = fn}
ClearCalls(l) ==
    {i \in CallsOf(l, "setLoading") : ~l.calls[i].isLoading}

\* C3: a step that completes a submit handler leaves the loading indicator
\* cleared and predictBtn enabled; the handler has called setLoading(false)
\* exactly once, after its one call of showResult.
C3_CleanupOnceAfterRender ==
    [][last'.id # last.id =>
          /\ ~predictBtn'.disabled
          /\ loading'.display = "none"
          /\ btnText'.opacity = "1"
          /\ Cardinality(ClearCalls(last')) = 1
          /\ Cardinality(CallsOf(last', "showResult")) = 1
          /\ \A i \in CallsOf(last', "showResult"), j \in ClearCalls(last') : i < j
          /\ resultEl'.by = last'.id]_vars

\* a handler whose fetch was rejected has completed and the control is enabled
C3_Witness ==
    /\ last.settle = "fetch-rejected"
    /\ Cardinality(ClearCalls(last)) = 1
    /\ ~predictBtn.disabled


ResultShown == resultEl.display = "block"
LoadingOn == loading.display = "block"
UiState ==
    CASE ~LoadingOn /\ ~ResultShown -> "Idle"
      [] LoadingOn /\ ~ResultShown -> "Loading"
      [] ~LoadingOn /\ ResultShown /\ resultEl.className = "result success" -> "Success"
      [] ~LoadingOn /\ ResultShown /\ resultEl.className = "result error" -> "Error"
      [] OTHER -> "Other"
FourStates == {"Idle", "Loading", "Success", "Error"}
AllowedTransitions ==
    { <<"Idle", "Loading">>, <<"Loading", "Success">>, <<"Loading", "Error">>,
      <<"Success", "Idle">>, <<"Error", "Idle">> }

\* C4 (as claimed): the UI is always in one of Idle, Loading, Success and Error,
\* and every change of state is one of Idle->Loading, Loading->Success,
\* Loading->Error, Success->Idle, Error->Idle.
C4_FourStateMachine ==
    [][/\ UiState' \in FourStates
       /\ UiState' # UiState => <<UiState, UiState'>> \in AllowedTransitions]_vars

ErrorShown == ResultShown /\ resultEl.className = "result error"

\* no submit event has occurred since the result now in #result was rendered
NoSubmitSinceRender == nextId = resultEl.by + 1

\* C5 (as claimed): while no submit event has occurred since an error result
\* was rendered, every step that is not a submit event leaves it shown.
C5_ErrorPersistsUntilSubmit ==
    [][(ErrorShown /\ NoSubmitSinceRender /\ nextId' = nextId) => ErrorShown']_vars

ErrorPresent(l) == l.data.t = "object" /\ l.data.error # Undefined

\* C6 (as claimed): when a response has arrived and was not rendered as a
\* success, the message shown is the body's error field when the body has one,
\* and "Prediction failed" otherwise.
C6_ServerErrorVerbatim ==
    (Finished /\ last.settle \in {"json", "json-rejected"} /\ ~OkWithTruthyPrice(last))
    => /\ IsErrorRender(resultEl)
       /\ resultEl.innerHTML.text =
             IF ErrorPresent(last) THEN last.data.error.s ELSE "Prediction failed"

\* C6 (amended): when the body of the response parsed to a JSON object and the
\* response was not rendered as a success, the message shown is the body's
\* error field when that is a non-empty string, and "Prediction failed"
\* otherwise.
C6_ServerErrorWhenTruthy ==
    (Finished /\ last.settle = "json" /\ last.data.t = "object"
       /\ ~OkWithTruthyPrice(last))
    => /\ IsErrorRender(resultEl)
       /\ resultEl.innerHTML.text =
             IF ErrorPresent(last) /\ last.data.error.s # ""
             THEN last.data.error.s ELSE "Prediction failed"

\* HTTP 400 with error "bad input" is shown as "bad input"
C6_Witness ==
    /\ Finished
    /\ last.settle = "json"
    /\ last.status = 400
    /\ last.data = Obj(Undefined, Str("bad input"))
    /\ resultEl.innerHTML.text = "bad input"
    /\ IsErrorRender(resultEl)

\* the handler l ended in its catch clause
Threw(l) ==
    \/ l.settle \in {"fetch-rejected", "json-rejected"}
    \/ l.settle = "json" /\ l.data.t = "null"

\* C7: a handler whose fetch or response.json() was rejected (or whose body
\* parsed to null) has rendered the fixed network-error message as an error,
\* and the exception did not leave the handler.
C7_ExceptionShownAsNetworkError ==
    (Finished /\ Threw(last))
    => /\ IsErrorRender(resultEl)
       /\ resultEl.innerHTML.text =
             "Network error - please check if the API server is running"
       /\ ~last.escaped
       /\ Cardinality(CallsOf(last, "showResult")) = 1

\* a response whose body is not JSON has been shown as the network error
C7_Witness ==
    /\ Finished
    /\ last.settle = "json-rejected"
    /\ last.status = 400
    /\ IsErrorRender(resultEl)
    /\ resultEl.innerHTML.text =
          "Network error - please check if the API server is running"


\* the order of the positional array, as the claims give it
FieldOrder ==
    <<"area", "bedrooms", "bathrooms", "stories", "mainroad", "guestroom",
      "basement", "hotwaterheating", "airconditioning", "parking", "prefarea",
      "furnishingstatus">>
IntegerPositions == {i \in 1..Len(FieldOrder) : FieldOrder[i] \in IntFields}
JsonNull == [j |-> "null"]

\* the element the claims expect at position i for form fd
ExpectedElement(fd, i) ==
    IF i \in IntegerPositions
    THEN LET n == parseInt(Text(fd[FieldOrder[i]]))
         IN  IF n = NaN THEN JsonNull ELSE [j |-> "number", n |-> n.n]
    ELSE [j |-> "string", cs |-> fd[FieldOrder[i]]]

\* C8: the input array of every request has 12 elements, the i-th taken from
\* the i-th field of the fixed order: integer-parsed at the five integer
\* positions, the field's string at the others.
C8_TwelveInFixedOrder ==
    \A r \in inflight :
        /\ DOMAIN r.body.input = 1..12
        /\ \A i \in 1..12 : r.body.input[i] = ExpectedElement(r.form, i)

\* a form whose parking field reads "12px" went out with 12 at position 10
C8_Witness ==
    \E r \in inflight :
        /\ r.form["parking"] = <<"1", "2", "p", "x">>
        /\ r.body.input[10] = [j |-> "number", n |-> 12]
        /\ r.body.input[11] = [j |-> "string", cs |-> Yes]

WellTyped(body) ==
    /\ DOMAIN body.input = 1..12
    /\ \A i \in IntegerPositions : body.input[i].j = "number"
    /\ \A i \in (1..12) \ IntegerPositions : body.input[i].j = "string"

\* C9 (as claimed): every dispatched request carries an integer at each of the
\* five integer positions and a string at each of the others.
C9_DispatchedWellTyped == \A r \in inflight : WellTyped(r.body)

\* the integer positions whose field does not parse as an integer
Unparsed(fd) == {i \in IntegerPositions : parseInt(Text(fd[FieldOrder[i]])) = NaN}

\* C10 (as claimed): a submit event whose form has an integer field that does
\* not parse dispatches exactly one request, shows no error, and the request
\* carries not-a-number at that field's position.
C10_NaNForwardedAsIs ==
    [][nextId' # nextId =>
          /\ Cardinality(inflight' \ inflight) = 1
          /\ resultEl' = resultEl
          /\ \A r \in inflight' \ inflight :
                \A i \in Unparsed(r.form) : r.body.input[i].j = "NaN"]_vars

\* C10 (amended): a submit event whose form has an integer field that does not
\* parse dispatches exactly one request (one call of fetch) and leaves #result
\* as it was; not-a-number stands at that field's position of inputFeatures
\* and goes out as null in the JSON body.
C10_NaNForwardedAsNull ==
    [][nextId' # nextId =>
          /\ Cardinality(inflight' \ inflight) = 1
          /\ resultEl' = resultEl
          /\ \A r \in inflight' \ inflight :
                /\ r.id = nextId
                /\ Cardinality(CallsOf(r, "fetch")) = 1
                /\ \A i \in Unparsed(r.form) :
                      /\ InputFeatures(r.form)[i] = NaN
                      /\ r.body.input[i] = JsonNull]_vars

\* a request for a form whose area is "abc" is in flight
C10_Witness ==
    \E r \in inflight :
        /\ r.form["area"] = <<"a", "b", "c">>
        /\ 1 \in Unparsed(r.form)
        /\ r.body.input[1] = JsonNull
        /\ r.pc = "fetch"

\* C11: when submit events come only through the enabled submit control, at
\* most one request is in flight, and while one is in flight the control is
\* disabled (it was disabled in the step of the submit event itself).
C11_OneInFlightThroughControl ==
    /\ Cardinality(inflight) <= 1
    /\ inflight # {} => predictBtn.disabled

\* the second submission made through the control is in flight, alone
C11_Witness ==
    /\ \E r \in inflight : r.id = 2 /\ r.pc = "json"
    /\ Cardinality(inflight) = 1
    /\ predictBtn.disabled

Ids(rs) == {r.id : r \in rs}

\* C12: a handler that completes has called fetch exactly once and showResult
\* exactly once; a step that is not a submit event starts no request, and the
\* handlers still suspended have each called fetch once and showResult never.
C12_OneRequestOneResult ==
    [][/\ last'.id # last.id =>
             /\ Cardinality(CallsOf(last', "fetch")) = 1
             /\ Cardinality(CallsOf(last', "showResult")) = 1
             /\ last'.id \notin Ids(inflight')
       /\ nextId' = nextId => Ids(inflight') \subseteq Ids(inflight)
       /\ nextId' # nextId => Ids(inflight') = Ids(inflight) \cup {nextId}
       /\ \A r \in inflight' :
             /\ Cardinality(CallsOf(r, "fetch")) = 1
             /\ CallsOf(r, "showResult") = {}]_vars

\* a submission has failed, and no request is in flight after it
C12_Witness ==
    /\ Finished
    /\ Threw(last)
    /\ last.id = 1
    /\ inflight = {}
    /\ nextId = 2
    /\ Cardinality(CallsOf(last, "fetch")) = 1

Rendered == resultEl.by # 0
\* the price formatted into #result is that of a positive number
PositivePriceShown ==
    /\ ~resultEl.innerHTML.price.nan
    /\ ~resultEl.innerHTML.price.neg
    /\ resultEl.innerHTML.price.groups # <<0>>

\* C13 (as claimed): what has been rendered into #result is either a positive
\* price under the success styling or a message under the error styling:
\* never a price under the error styling, a success styling without a price,
\* or a success for a price that is not positive.
C13_PositivePriceOrError ==
    Rendered =>
        \/ /\ resultEl.className = "result success"
           /\ resultEl.innerHTML.kind = "price"
           /\ PositivePriceShown
        \/ /\ resultEl.className = "result error"
           /\ resultEl.innerHTML.kind = "message"

\* C14: once the probe has failed, by a rejected fetch or by a response that
\* is not ok alike, #apiStatus is the offline indicator, shown, with no hide
\* timer pending, in every later state; a hide timer is pending, or the
\* indicator hidden again, only after a successful probe.
C14_FailedProbeStaysOffline ==
    /\ probe \in {"not-ok", "rejected"} => (apiStatus = OfflineStatus /\ ~statusTimer)
    /\ statusTimer => probe = "ok"
    /\ (statusPc = "done" /\ apiStatus.display = "none") => probe = "ok"

\* the probe got a response that was not ok, and two submissions later the
\* offline indicator is still shown
C14_Witness ==
    /\ probe = "not-ok"
    /\ apiStatus = OfflineStatus
    /\ nextId = 3
    /\ Finished
    /\ inflight = {}

SuccessShown == ResultShown /\ resultEl.className = "result success"

\* C15 (as claimed): a step that hides a shown success result is the firing of
\* the timer set by the showResult call that rendered it.
C15_SuccessHiddenByOwnTimer ==
    [][(SuccessShown /\ resultEl'.display = "none") =>
          (timers # <<>> /\ Head(timers) = resultEl.by)]_vars

\* C16: when a handler completes while another request is in flight, its
\* result is rendered and shown whichever of the submissions came first, and
\* the step leaves the control enabled and the loading indicator cleared
\* although a request is still in flight.
C16_OverlapNotSequenced ==
    [][(last'.id # last.id /\ Cardinality(inflight) >= 2) =>
          /\ resultEl'.by = last'.id
          /\ resultEl'.display = "block"
          /\ inflight' # {}
          /\ ~predictBtn'.disabled
          /\ loading'.display = "none"]_vars

\* the second submission has completed first: its result is on screen and the
\* control is enabled while the first request is still in flight
C16_Witness ==
    /\ last.id = 2
    /\ resultEl.by = 2
    /\ \E r \in inflight : r.id = 1 /\ r.overtaken
    /\ ~predictBtn.disabled

statusVars == <<apiStatus, statusPc, probe, statusTimer>>
predictionVars ==
    <<predictBtn, btnText, loading, resultEl, timers, inflight, nextId, last>>

\* C17: a step of checkApiStatus or of its timer changes nothing of the
\* prediction flow, a step of the prediction flow (submit handler,
\* showResult, setLoading, result timer) changes nothing of the status
\* indicator, and a submit event that occurs with the indicator offline is
\* handled like any other: its request is dispatched.
C17_StatusAndPredictionDisjoint ==
    [][/\ statusVars' # statusVars => predictionVars' = predictionVars
       /\ predictionVars' # predictionVars => statusVars' = statusVars
       /\ (apiStatus = OfflineStatus /\ nextId' # nextId) =>
             (Cardinality(inflight') = Cardinality(inflight) + 1
                /\ predictBtn'.disabled)]_vars

\* the probe was rejected, the indicator shows offline, and two submissions
\* have been made and answered
C17_Witness ==
    /\ apiStatus = OfflineStatus
    /\ probe = "rejected"
    /\ Finished
    /\ last.settle = "json"
    /\ nextId = 3
    /\ inflight = {}
    /\ ~predictBtn.disabled

====
